---- MODULE Spec2Model ----
(***************************************************************************)
(* Availability and booking engine of LocalConnect (ServiceHub).           *)
(*                                                                         *)
(* The pure availability functions of src/src/lib/availability.js are      *)
(* operators.  The booking store (the Firestore collection "bookings"),    *)
(* the customer's provider-detail page, the provider's dashboards and the  *)
(* data-access functions of src/src/lib/firestore.js are a state machine.  *)
(*                                                                         *)
(* Strings.  A time string "HH:MM" is the record [hh, mm] of the two digit *)
(* sequences around the colon, so that "9:00" and "09:00" are different    *)
(* strings with the same parsed value; the empty string is EmptyTime.  A   *)
(* date string "YYYY-MM-DD" is the record [y, m, d]; the empty string is   *)
(* EmptyDate.                                                              *)
(***************************************************************************)
EXTENDS Integers, Sequences, FiniteSets, TLC

(***************************************************************************)
(* Strings, parsing and formatting                                         *)
(***************************************************************************)

EmptyTime == [hh |-> <<>>, mm |-> <<>>]

EmptyDate == [y |-> 0, m |-> 0, d |-> 0]

\* parseInt on a sequence of decimal digits
RECURSIVE parseInt(_)
parseInt(s) ==
  IF Len(s) = 0 THEN 0
  ELSE 10 * parseInt(SubSeq(s, 1, Len(s) - 1)) + s[Len(s)]

\* n.toString(): the decimal digits of a natural number
RECURSIVE toDigits(_)
toDigits(n) ==
  IF n < 10 THEN <<n>> ELSE Append(toDigits(n \div 10), n % 10)

\* n.toString().padStart(2, '0')
padStart2(n) ==
  LET s == toDigits(n) IN IF Len(s) < 2 THEN <<0>> \o s ELSE s

\* `${hour.padStart(2,'0')}:${minute.padStart(2,'0')}` of a minute of the day
timeString(currentTime) ==
  [hh |-> padStart2(currentTime \div 60), mm |-> padStart2(currentTime % 60)]

\* parseInt(t.split(':')[0]) * 60 + parseInt(t.split(':')[1])
toMinutes(t) == parseInt(t.hh) * 60 + parseInt(t.mm)

\* new Date(date).getDay(): 0 = Sunday .. 6 = Saturday, in the single
\* implicit time zone of the program
monthOffset == <<0, 3, 2, 5, 0, 3, 5, 1, 4, 6, 2, 4>>

\* the date strings new Date(date) accepts: a day number up to 31 is accepted
\* in every month and rolls over into the next one
validDate(date) == date.m \in 1..12 /\ date.d \in 1..31

\* the value of getDay() of an Invalid Date
NaN == -1

getDay(date) ==
  IF ~validDate(date) THEN NaN
  ELSE LET y == IF date.m < 3 THEN date.y - 1 ELSE date.y
       IN  (y + (y \div 4) - (y \div 100) + (y \div 400)
              + monthOffset[date.m] + date.d) % 7

(***************************************************************************)
(* availability.js                                                         *)
(***************************************************************************)

NoAvailability == <<>>

\* availability[dayOfWeek] where the template has no such key: undefined, whose
\* ?.available is not true
NoDayRule == [available |-> FALSE, startTime |-> EmptyTime, endTime |-> EmptyTime]

\* provider.availability[dayOfWeek]
dayRule(availability, dayOfWeek) ==
  IF dayOfWeek \in DOMAIN availability THEN availability[dayOfWeek] ELSE NoDayRule

ActiveStatuses == {"pending", "confirmed"}

Statuses == {"pending", "confirmed", "rejected", "completed"}

\* a conflict test that looks at date and time only
hasBookingAt(date, time, existingBookings) ==
  \E i \in 1..Len(existingBookings) :
     /\ existingBookings[i].scheduledDate = date
     /\ existingBookings[i].scheduledTime = time

\* existingBookings.find(...) of isProviderAvailable: the conflict check
hasConflictingBooking(date, time, existingBookings) ==
  \E i \in 1..Len(existingBookings) :
     /\ existingBookings[i].scheduledDate = date
     /\ existingBookings[i].scheduledTime = time
     /\ existingBookings[i].status \in ActiveStatuses

\* an availability test that lets one pending or confirmed booking block the
\* whole day
isAvailableOnFreeDay(provider, date, time, existingBookings) ==
  IF provider.availability = NoAvailability \/ date = EmptyDate \/ time = EmptyTime
  THEN FALSE
  ELSE LET dayAvailability == provider.availability[getDay(date)]
       IN  /\ dayAvailability.available
           /\ toMinutes(time) >= toMinutes(dayAvailability.startTime)
           /\ toMinutes(time) < toMinutes(dayAvailability.endTime)
           /\ ~\E i \in 1..Len(existingBookings) :
                  /\ existingBookings[i].scheduledDate = date
                  /\ existingBookings[i].status \in ActiveStatuses

isProviderAvailable(provider, date, time, existingBookings) ==
  IF provider.availability = NoAvailability \/ date = EmptyDate \/ time = EmptyTime
  THEN FALSE
  ELSE LET dayAvailability == dayRule(provider.availability, getDay(date))
       IN  IF ~dayAvailability.available THEN FALSE
           ELSE LET requestedTime == toMinutes(time)
                    startTime == toMinutes(dayAvailability.startTime)
                    endTime == toMinutes(dayAvailability.endTime)
                IN  IF requestedTime < startTime \/ requestedTime >= endTime
                    THEN FALSE
                    ELSE ~hasConflictingBooking(date, time, existingBookings)

\* a loop that goes on while a slot starts before the end of the window
RECURSIVE slotLoopToEnd(_, _, _, _, _, _)
slotLoopToEnd(provider, date, existingBookings, slotDuration, currentTime, endTime) ==
  IF currentTime < endTime
  THEN LET t == timeString(currentTime)
           rest == slotLoopToEnd(provider, date, existingBookings, slotDuration,
                                 currentTime + slotDuration, endTime)
       IN  IF isProviderAvailable(provider, date, t, existingBookings)
           THEN <<t>> \o rest
           ELSE rest
  ELSE <<>>

\* the while loop of getAvailableTimeSlots, from currentTime on
RECURSIVE slotLoop(_, _, _, _, _, _)
slotLoop(provider, date, existingBookings, slotDuration, currentTime, endTime) ==
  IF currentTime + slotDuration <= endTime
  THEN LET t == timeString(currentTime)
           rest == slotLoop(provider, date, existingBookings, slotDuration,
                            currentTime + slotDuration, endTime)
       IN  IF isProviderAvailable(provider, date, t, existingBookings)
           THEN <<t>> \o rest
           ELSE rest
  ELSE <<>>

getAvailableTimeSlots(provider, date, existingBookings, slotDuration) ==
  IF provider.availability = NoAvailability \/ date = EmptyDate
  THEN <<>>
  ELSE LET dayAvailability == dayRule(provider.availability, getDay(date))
       IN  IF ~dayAvailability.available THEN <<>>
           ELSE slotLoop(provider, date, existingBookings, slotDuration,
                         toMinutes(dayAvailability.startTime),
                         toMinutes(dayAvailability.endTime))

\* the for loop of generateTimeSlots: the candidate slots of a window
RECURSIVE generateLoop(_, _, _)
generateLoop(time, end, duration) ==
  IF time + duration <= end
  THEN <<timeString(time)>> \o generateLoop(time + duration, end, duration)
  ELSE <<>>

generateTimeSlots(startTime, endTime, duration) ==
  generateLoop(toMinutes(startTime), toMinutes(endTime), duration)

(***************************************************************************)
(* The world of the state machine                                          *)
(***************************************************************************)

MaxBookings == 2

Customers == {"c1", "c2"}

Providers == {"p1", "p2"}

NoUser == "none"

\* AuthContext: the role stored with the user's profile
userRole(u) ==
  IF u \in Customers THEN "customer"
  ELSE IF u \in Providers THEN "provider" ELSE "none"

T0900 == [hh |-> <<0, 9>>, mm |-> <<0, 0>>]
T1000 == [hh |-> <<1, 0>>, mm |-> <<0, 0>>]
T1100 == [hh |-> <<1, 1>>, mm |-> <<0, 0>>]
T1700 == [hh |-> <<1, 7>>, mm |-> <<0, 0>>]

\* a weekly template in the shape of the profile form's default: closed on
\* Sunday and Saturday, one window on the other days
weekTemplate(startTime, endTime) ==
  [day \in 0..6 |->
     [available |-> day \in 1..5, startTime |-> startTime, endTime |-> endTime]]

\* the documents of the collection "providers"
providerDoc(id) ==
  [id |-> id,
   availability |-> IF id = "p1" THEN weekTemplate(T0900, T1100)
                    ELSE weekTemplate(T1000, T1100)]

Monday == [y |-> 2025, m |-> 1, d |-> 6]

\* the dates the booking form is used with
FormDates == {Monday}

\* the provider-detail pages that are open: the signed-in user and params.id
Sessions == {"s1", "s2"}

pageUser(s) == IF s = "s1" THEN "c1" ELSE "c2"

paramsId(s) == "p1"

\* the provider's booking lists that are open: d1 is the ProviderDashboard
\* page, d2 the BookingManagement component, both of provider p1
Dashboards == {"d1", "d2"}

dashUser(d) == "p1"

DefaultSlotDuration == 60

VARIABLES
  store,               \* the collection "bookings", in creation order; the
                       \* document id is the position
  lastOp,              \* the last call of a data-access function of
                       \* firestore.js: [kind, user, id, status], the user
                       \* who called, the document and the status passed
  pc,                  \* per page: "loading", "idle" or "writing" (awaiting addDoc)
  provider,            \* per page: the provider state
  providerBookings,    \* per page: the bookings fetched by fetchProviderData
  availableTimeSlots,  \* per page
  bookingData,         \* per page: [scheduledDate, scheduledTime]
  bookingLoading,      \* per page
  booking,             \* per page: the booking object built by handleBookingSubmit
  slotWasFree,         \* per page: whether the store held no pending or
                       \* confirmed booking for the slot when the last
                       \* handleBookingSubmit built its booking
  result,              \* per page: the alert handleBookingSubmit has shown,
                       \* until the user's next action on the page
  bookings,            \* per dashboard: the list set by onSnapshot
  profilePage,         \* the provider's profile page: [loading, availability,
                       \* saving, message, timer, profileData], availability
                       \* being profile.availability, timer whether a
                       \* setTimeout of handleSubmit is pending, profileData
                       \* the template a running handleSubmit is writing
  profileDoc,          \* the document providers/{user.uid} of the provider
                       \* using the profile page: [exists, availability]
  query                \* a call of an availability function: its arguments
                       \* and, once it has returned, its result

vars == <<store, lastOp, pc, provider, providerBookings, availableTimeSlots,
          bookingData, bookingLoading, booking, slotWasFree, result,
          bookings, profilePage, profileDoc, query>>

profileVars == <<profilePage, profileDoc>>

pageVars == <<pc, provider, providerBookings, availableTimeSlots,
              bookingData, bookingLoading, booking, slotWasFree, result>>

NoProvider == [id |-> "none", availability |-> NoAvailability]

NoBooking == [customerId |-> NoUser, providerId |-> "none",
              scheduledDate |-> EmptyDate, scheduledTime |-> EmptyTime,
              status |-> "none"]

EmptyBookingData == [scheduledDate |-> EmptyDate, scheduledTime |-> EmptyTime]

NoQuery == [provider |-> NoProvider, date |-> EmptyDate, existingBookings |-> <<>>,
            returned |-> FALSE, slots |-> <<>>]

NoOp == [kind |-> "none", user |-> NoUser, id |-> 0, status |-> "none"]

\* useState of ProviderProfile: the availability of the initial profile
defaultAvailability == weekTemplate(T0900, T1700)

NoProfileDoc == [exists |-> FALSE, availability |-> NoAvailability]

\* the store and the components before anything has run
InitProgram ==
  /\ store = <<>>
  /\ lastOp = NoOp
  /\ pc = [s \in Sessions |-> "loading"]
  /\ provider = [s \in Sessions |-> NoProvider]
  /\ providerBookings = [s \in Sessions |-> <<>>]
  /\ availableTimeSlots = [s \in Sessions |-> <<>>]
  /\ bookingData = [s \in Sessions |-> EmptyBookingData]
  /\ bookingLoading = [s \in Sessions |-> FALSE]
  /\ booking = [s \in Sessions |-> NoBooking]
  /\ slotWasFree = [s \in Sessions |-> FALSE]
  /\ result = [s \in Sessions |-> "none"]
  /\ bookings = [d \in Dashboards |-> <<>>]
  /\ profilePage = [loading |-> TRUE, availability |-> defaultAvailability,
                    saving |-> FALSE, message |-> "", timer |-> FALSE,
                    profileData |-> NoAvailability]
  /\ profileDoc = NoProfileDoc

Init == InitProgram /\ query = NoQuery

(***************************************************************************)
(* The store and its security rules                                        *)
(***************************************************************************)

\* match /bookings/{bookingId}: allow create
ruleCreate(u, data) == u # NoUser /\ u = data.customerId

\* match /bookings/{bookingId}: allow read, write on an existing document
ruleWrite(u, doc) == u # NoUser /\ (u = doc.customerId \/ u = doc.providerId)

\* addDoc(collection(db, 'bookings'), data)
addDoc(docs, data) == Append(docs, data)

\* updateDoc(doc(db, 'bookings', id), {status, ...})
updateDoc(docs, id, status) == [docs EXCEPT ![id].status = status]

\* snapshot.docs.map(doc => ({id: doc.id, ...doc.data()})) of the query
\* where('providerId', '==', providerId), documents i..Len(docs)
RECURSIVE queryFrom(_, _, _)
queryFrom(docs, providerId, i) ==
  IF i > Len(docs) THEN <<>>
  ELSE IF docs[i].providerId = providerId
       THEN <<[id |-> i,
               customerId |-> docs[i].customerId,
               providerId |-> docs[i].providerId,
               scheduledDate |-> docs[i].scheduledDate,
               scheduledTime |-> docs[i].scheduledTime,
               status |-> docs[i].status]>> \o queryFrom(docs, providerId, i + 1)
       ELSE queryFrom(docs, providerId, i + 1)

queryByProvider(docs, providerId) == queryFrom(docs, providerId, 1)

\* the key of a booking: provider, date and time
sameKey(a, b) ==
  /\ a.providerId = b.providerId
  /\ a.scheduledDate = b.scheduledDate
  /\ a.scheduledTime = b.scheduledTime

\* some pending or confirmed document of docs has the key of data
keyTaken(docs, data) ==
  \E i \in 1..Len(docs) : sameKey(docs[i], data) /\ docs[i].status \in ActiveStatuses

(***************************************************************************)
(* The provider-detail page (src/src/app/providers/[id]/page.js)           *)
(***************************************************************************)

Contains(seq, x) == \E i \in 1..Len(seq) : seq[i] = x

\* a slot effect that keeps the selected time whatever the list holds
slotEffectKeepingTime(prov, data, fetched) ==
  IF prov # NoProvider /\ data.scheduledDate # EmptyDate
  THEN [slots |-> getAvailableTimeSlots(prov, data.scheduledDate, fetched,
                                        DefaultSlotDuration),
        data |-> data]
  ELSE [slots |-> <<>>, data |-> data]

\* the effect "Update available time slots when date changes": the slot list
\* and the booking data it leaves
slotEffect(prov, data, fetched) ==
  IF prov # NoProvider /\ data.scheduledDate # EmptyDate
  THEN LET slots == getAvailableTimeSlots(prov, data.scheduledDate, fetched,
                                          DefaultSlotDuration)
       IN  [slots |-> slots,
            data |-> IF data.scheduledTime # EmptyTime
                        /\ ~Contains(slots, data.scheduledTime)
                     THEN [data EXCEPT !.scheduledTime = EmptyTime]
                     ELSE data]
  ELSE [slots |-> <<>>, data |-> data]

\* fetchProviderData with the bookings query answered by the store
fetchProviderData(s) ==
  /\ pc[s] = "loading"
  /\ LET prov == providerDoc(paramsId(s))
         fetched == queryByProvider(store, paramsId(s))
         eff == slotEffect(prov, bookingData[s], fetched)
     IN  /\ provider' = [provider EXCEPT ![s] = prov]
         /\ providerBookings' = [providerBookings EXCEPT ![s] = fetched]
         /\ availableTimeSlots' = [availableTimeSlots EXCEPT ![s] = eff.slots]
         /\ bookingData' = [bookingData EXCEPT ![s] = eff.data]
  /\ pc' = [pc EXCEPT ![s] = "idle"]
  /\ UNCHANGED <<profileVars, store, lastOp, bookingLoading, booking, slotWasFree, result,
                 bookings, query>>

\* fetchProviderData with the bookings query failing (the catch branch): the
\* provider is set, providerBookings keeps its initial value
fetchProviderDataError(s) ==
  /\ pc[s] = "loading"
  /\ LET prov == providerDoc(paramsId(s))
         eff == slotEffect(prov, bookingData[s], providerBookings[s])
     IN  /\ provider' = [provider EXCEPT ![s] = prov]
         /\ availableTimeSlots' = [availableTimeSlots EXCEPT ![s] = eff.slots]
         /\ bookingData' = [bookingData EXCEPT ![s] = eff.data]
  /\ pc' = [pc EXCEPT ![s] = "idle"]
  /\ UNCHANGED <<profileVars, store, lastOp, providerBookings, bookingLoading, booking,
                 slotWasFree, result, bookings, query>>

\* onChange of the date input of the booking form, followed by the slot
\* effect; the form stays usable while a submit awaits the store
changeDate(s, date) ==
  /\ pc[s] # "loading"
  /\ date # bookingData[s].scheduledDate
  /\ LET eff == slotEffect(provider[s],
                           [bookingData[s] EXCEPT !.scheduledDate = date],
                           providerBookings[s])
     IN  /\ availableTimeSlots' = [availableTimeSlots EXCEPT ![s] = eff.slots]
         /\ bookingData' = [bookingData EXCEPT ![s] = eff.data]
  /\ result' = [result EXCEPT ![s] = "none"]
  /\ UNCHANGED <<profileVars, store, lastOp, pc, provider, providerBookings, bookingLoading,
                 booking, slotWasFree, bookings, query>>

\* onClick of one of the listed slot buttons
clickSlot(s, i) ==
  /\ pc[s] # "loading"
  /\ bookingData[s].scheduledDate # EmptyDate
  /\ i \in 1..Len(availableTimeSlots[s])
  /\ bookingData[s].scheduledTime # availableTimeSlots[s][i]
  /\ bookingData' = [bookingData EXCEPT
                       ![s].scheduledTime = availableTimeSlots[s][i]]
  /\ result' = [result EXCEPT ![s] = "none"]
  /\ UNCHANGED <<profileVars, store, lastOp, pc, provider, providerBookings,
                 availableTimeSlots, bookingLoading, booking, slotWasFree,
                 bookings, query>>

\* the booking object handleBookingSubmit builds
newBooking(user, prov, data) ==
  [customerId |-> user,
   providerId |-> prov.id,
   scheduledDate |-> data.scheduledDate,
   scheduledTime |-> data.scheduledTime,
   status |-> "pending"]

\* handleBookingSubmit up to its await: the submit button is enabled, the
\* user is signed in as a customer
handleBookingSubmit(s) ==
  /\ pc[s] = "idle"
  /\ ~bookingLoading[s]
  /\ bookingData[s].scheduledDate # EmptyDate
  /\ bookingData[s].scheduledTime # EmptyTime
  /\ pageUser(s) # NoUser
  /\ userRole(pageUser(s)) = "customer"
  /\ bookingLoading' = [bookingLoading EXCEPT ![s] = TRUE]
  /\ booking' = [booking EXCEPT
                   ![s] = newBooking(pageUser(s), provider[s], bookingData[s])]
  /\ slotWasFree' = [slotWasFree EXCEPT
        ![s] = ~keyTaken(store, newBooking(pageUser(s), provider[s],
                                           bookingData[s]))]
  /\ result' = [result EXCEPT ![s] = "none"]
  /\ pc' = [pc EXCEPT ![s] = "writing"]
  /\ UNCHANGED <<profileVars, store, lastOp, provider, providerBookings, availableTimeSlots,
                 bookingData, bookings, query>>

\* await addDoc resolves: the rest of the try block and the finally block
submitResolved(s) ==
  /\ pc[s] = "writing"
  /\ Len(store) < MaxBookings
  /\ ruleCreate(pageUser(s), booking[s])
  /\ store' = addDoc(store, booking[s])
  /\ UNCHANGED lastOp
  /\ LET eff == slotEffect(provider[s], EmptyBookingData, providerBookings[s])
     IN  /\ availableTimeSlots' = [availableTimeSlots EXCEPT ![s] = eff.slots]
         /\ bookingData' = [bookingData EXCEPT ![s] = eff.data]
  /\ result' = [result EXCEPT ![s] = "created"]
  /\ bookingLoading' = [bookingLoading EXCEPT ![s] = FALSE]
  /\ pc' = [pc EXCEPT ![s] = "idle"]
  /\ UNCHANGED <<profileVars, provider, providerBookings, booking, slotWasFree, bookings,
                 query>>

\* a rejected write whose handler has no finally block
submitRejectedNoFinally(s) ==
  /\ pc[s] = "writing"
  /\ result' = [result EXCEPT ![s] = "error"]
  /\ pc' = [pc EXCEPT ![s] = "idle"]
  /\ UNCHANGED <<profileVars, store, lastOp, provider, providerBookings, availableTimeSlots,
                 bookingData, bookingLoading, booking, slotWasFree, bookings,
                 query>>

\* await addDoc rejects (the store is unreachable or refuses the write): the
\* catch block and the finally block
submitRejected(s) ==
  /\ pc[s] = "writing"
  /\ result' = [result EXCEPT ![s] = "error"]
  /\ bookingLoading' = [bookingLoading EXCEPT ![s] = FALSE]
  /\ pc' = [pc EXCEPT ![s] = "idle"]
  /\ UNCHANGED <<profileVars, store, lastOp, provider, providerBookings, availableTimeSlots,
                 bookingData, booking, slotWasFree, bookings, query>>

(***************************************************************************)
(* Data-access functions (src/src/lib/firestore.js)                        *)
(***************************************************************************)

\* a document that keeps the status of the data it is made from
docAsGiven(data) == data

\* the document createBooking writes: {...bookingData, status: 'pending', ...}
createBookingDoc(data) == [data EXCEPT !.status = "pending"]

\* the times a caller of createBooking passes
CallTimes == {T1000}

\* createBooking(bookingData), called by the signed-in user u; a call the
\* security rules refuse returns {success: false} and changes nothing
createBooking(u, data) ==
  /\ Len(store) < MaxBookings
  /\ ruleCreate(u, createBookingDoc(data))
  /\ store' = addDoc(store, createBookingDoc(data))
  /\ lastOp' = [kind |-> "create", user |-> u, id |-> Len(store) + 1,
                status |-> data.status]
  /\ UNCHANGED <<profileVars, pageVars, bookings, query>>

\* updateBookingStatus(bookingId, status), called by the signed-in user u; a
\* call the security rules refuse returns {success: false} and changes nothing
updateBookingStatus(u, bookingId, status) ==
  /\ bookingId \in 1..Len(store)
  /\ ruleWrite(u, store[bookingId])
  /\ store' = updateDoc(store, bookingId, status)
  /\ lastOp' = [kind |-> "update", user |-> u, id |-> bookingId,
                status |-> status]
  /\ UNCHANGED <<profileVars, pageVars, bookings, query>>

(***************************************************************************)
(* The provider's booking lists: ProviderDashboard                         *)
(* (src/src/app/provider/profile/page.js) and BookingManagement with its   *)
(* BookingCard (src/src/components/ReviewModal.js)                         *)
(***************************************************************************)

RECURSIVE reverse(_)
reverse(seq) ==
  IF Len(seq) = 0 THEN <<>> ELSE Append(reverse(Tail(seq)), Head(seq))

\* the onSnapshot callback: the provider's bookings, newest first
onSnapshot(d) ==
  /\ bookings[d] # reverse(queryByProvider(store, dashUser(d)))
  /\ bookings' = [bookings EXCEPT
                    ![d] = reverse(queryByProvider(store, dashUser(d)))]
  /\ UNCHANGED <<profileVars, store, lastOp, pageVars, query>>

\* a status button of list entry i: shown for the status the list holds,
\* written with updateDoc whatever the status in the store
statusButton(d, i, shownStatus, newStatus) ==
  /\ i \in 1..Len(bookings[d])
  /\ bookings[d][i].status = shownStatus
  /\ ruleWrite(dashUser(d), store[bookings[d][i].id])
  /\ store' = updateDoc(store, bookings[d][i].id, newStatus)
  /\ UNCHANGED lastOp

handleAcceptBooking(d, i) ==
  /\ d = "d1"
  /\ statusButton(d, i, "pending", "confirmed")
  /\ UNCHANGED <<profileVars, pageVars, bookings, query>>

handleDeclineBooking(d, i) ==
  /\ d = "d1"
  /\ statusButton(d, i, "pending", "rejected")
  /\ UNCHANGED <<profileVars, pageVars, bookings, query>>

handleCompleteBooking(d, i) ==
  /\ d = "d1"
  /\ statusButton(d, i, "confirmed", "completed")
  /\ UNCHANGED <<profileVars, pageVars, bookings, query>>

\* the buttons of BookingCard: Accept, Decline, Mark as Completed
CardButtons ==
  {<<"pending", "confirmed">>, <<"pending", "rejected">>,
   <<"confirmed", "completed">>}

\* BookingCard.handleStatusUpdate, then BookingManagement.handleStatusUpdate
\* on the local list
handleStatusUpdate(d, i, button) ==
  /\ d = "d2"
  /\ statusButton(d, i, button[1], button[2])
  /\ bookings' = [bookings EXCEPT ![d][i].status = button[2]]
  /\ UNCHANGED <<profileVars, pageVars, query>>

(***************************************************************************)
(* Specification                                                           *)
(***************************************************************************)

\* the provider-detail pages
NextPage ==
  \/ \E s \in Sessions : fetchProviderData(s)
  \/ \E s \in Sessions : fetchProviderDataError(s)
  \/ \E s \in Sessions, date \in FormDates : changeDate(s, date)
  \/ \E s \in Sessions, i \in 1..2 : clickSlot(s, i)
  \/ \E s \in Sessions : handleBookingSubmit(s)
  \/ \E s \in Sessions : submitResolved(s)
  \/ \E s \in Sessions : submitRejected(s)

\* createBooking under its callers
NextCreate ==
  \E u \in Customers, p \in Providers, date \in FormDates,
     time \in CallTimes, status \in Statuses :
     createBooking(u, [customerId |-> u, providerId |-> p,
                       scheduledDate |-> date, scheduledTime |-> time,
                       status |-> status])

\* updateBookingStatus under its callers
NextUpdate ==
  \E u \in Customers \cup Providers, id \in 1..MaxBookings,
     status \in Statuses : updateBookingStatus(u, id, status)

\* the provider's booking lists
NextDashboard ==
  \/ \E d \in Dashboards : onSnapshot(d)
  \/ \E d \in Dashboards, i \in 1..MaxBookings : handleAcceptBooking(d, i)
  \/ \E d \in Dashboards, i \in 1..MaxBookings : handleDeclineBooking(d, i)
  \/ \E d \in Dashboards, i \in 1..MaxBookings : handleCompleteBooking(d, i)
  \/ \E d \in Dashboards, i \in 1..MaxBookings, button \in CardButtons :
        handleStatusUpdate(d, i, button)

Next == NextPage \/ NextCreate \/ NextUpdate \/ NextDashboard

\* the whole program
Spec == Init /\ [][Next]_vars

\* The components of the program meet only in the store, so each is checked
\* with the writers of the store it depends on.
\* Booking creation: the pages and createBooking.
BookingSpec == Init /\ [][NextPage \/ NextCreate]_vars

\* Status changes from the provider's lists, on bookings made by createBooking.
StatusSpec == Init /\ [][NextCreate \/ NextDashboard]_vars

\* The data-access functions alone.
ApiSpec == Init /\ [][NextCreate \/ NextUpdate]_vars

\* The booking pages alone.
PageSpec == Init /\ [][NextPage]_vars

\* The booking pages and createBooking, where the store answers every write it
\* was sent.
FairBookingSpec ==
  BookingSpec /\ \A s \in Sessions : WF_vars(submitResolved(s) \/ submitRejected(s))

(***************************************************************************)
(* Calls of the availability functions of src/lib/availability.js          *)
(***************************************************************************)

MaxQueryBookings == 2

T0930 == [hh |-> <<0, 9>>, mm |-> <<3, 0>>]
T1030 == [hh |-> <<1, 0>>, mm |-> <<3, 0>>]
T1145 == [hh |-> <<1, 1>>, mm |-> <<4, 5>>]
T1200 == [hh |-> <<1, 2>>, mm |-> <<0, 0>>]

\* "9:00": the same time of day as "09:00", another string
T900 == [hh |-> <<9>>, mm |-> <<0, 0>>]

Sunday == [y |-> 2025, m |-> 1, d |-> 5]
Tuesday == [y |-> 2025, m |-> 1, d |-> 7]

\* the providers the functions are called with: three weekly templates and a
\* provider document without availability
QueryProviders ==
  { [id |-> "p1", availability |-> weekTemplate(T0900, T1100)],
    [id |-> "p1", availability |-> weekTemplate(T0900, T1200)],
    [id |-> "p1", availability |-> weekTemplate(T0930, T1145)],
    [id |-> "p1", availability |-> NoAvailability] }

QueryDates == {Sunday, Monday, Tuesday}

\* the booking documents the functions are called with
QueryBookings ==
  [customerId : {"c1"}, providerId : {"p1"},
   scheduledDate : {Monday, Tuesday},
   scheduledTime : {T0900, T900, T1000},
   status : Statuses]

SeqsUpTo(S, n) == UNION {[1..k -> S] : k \in 0..n}

QueryInit ==
  /\ InitProgram
  /\ query \in [provider : QueryProviders, date : QueryDates,
                existingBookings : SeqsUpTo(QueryBookings, MaxQueryBookings),
                returned : {FALSE}, slots : {<<>>}]

\* getAvailableTimeSlots(provider, date, existingBookings) with the default
\* slotDuration
callGetAvailableTimeSlots ==
  /\ ~query.returned
  /\ query' = [query EXCEPT
        !.returned = TRUE,
        !.slots = getAvailableTimeSlots(query.provider, query.date,
                                        query.existingBookings,
                                        DefaultSlotDuration)]
  /\ UNCHANGED <<profileVars, store, lastOp, pageVars, bookings>>

NextSlot == callGetAvailableTimeSlots

SlotSpec == QueryInit /\ [][NextSlot]_vars

(***************************************************************************)
(* The clock: new Date()                                                   *)
(***************************************************************************)

\* An instant of the clock is a date, a minute of the day and whether any
\* part of that minute has passed (ms = 0: the minute begins at this very
\* instant). The program runs in one time zone, that of its date strings.
dateNumber(date) == date.y * 10000 + date.m * 100 + date.d

\* a < b for Date objects: comparison of the instants
instantBefore(a, b) ==
  \/ dateNumber(a.date) < dateNumber(b.date)
  \/ /\ a.date = b.date
     /\ \/ a.minute < b.minute
        \/ a.minute = b.minute /\ a.ms < b.ms

\* new Date(`${date}T${time}:00`)
slotDateTime(date, time) == [date |-> date, minute |-> toMinutes(time), ms |-> 0]

\* new Date().toISOString().split('T')[0]
todayString(now) == now.date

isSlotInPast(date, time, now) == instantBefore(slotDateTime(date, time), now)

\* a filter that also drops the earliest slot of today's list
filterPastSlotsDroppingEarliest(date, timeSlots, now) ==
  IF date # todayString(now) \/ Len(timeSlots) = 0 THEN timeSlots
  ELSE Tail(timeSlots)

filterPastSlots(date, timeSlots, now) ==
  IF date # todayString(now) THEN timeSlots
  ELSE SelectSeq(timeSlots, LAMBDA time : ~isSlotInPast(date, time, now))

MaxSlots == 2

\* the instants the clock shows when a function is called: Monday at 08:00, at
\* 09:00 sharp (ms = 0) or just after (ms = 1), and likewise at 09:30 and 10:00
ClockMinutes == {480, 540, 570, 600}

Clocks == [date : {Monday}, minute : ClockMinutes, ms : {0, 1}]

\* slot strings as getAvailableTimeSlots produces them
SlotTimes == {T0900, T1000, T1100}

PastInit ==
  /\ InitProgram
  /\ query \in [fn : {"filterPastSlots"}, date : QueryDates,
                timeSlots : SeqsUpTo(SlotTimes, MaxSlots), now : Clocks,
                returned : {FALSE}, out : {<<>>}]

callFilterPastSlots ==
  /\ ~query.returned
  /\ query' = [query EXCEPT
        !.returned = TRUE,
        !.out = filterPastSlots(query.date, query.timeSlots, query.now)]
  /\ UNCHANGED <<profileVars, store, lastOp, pageVars, bookings>>

NextPast == callFilterPastSlots

PastSpec == PastInit /\ [][NextPast]_vars

(***************************************************************************)
(* The slot list of the booking form under a clock                         *)
(***************************************************************************)

MaxFormBookings == 1

\* the effect of the booking form run for a provider, a date and the fetched
\* bookings while the clock shows now
FormInit ==
  /\ InitProgram
  /\ query \in [fn : {"slotEffect"}, provider : QueryProviders, date : QueryDates,
                existingBookings : SeqsUpTo(QueryBookings, MaxFormBookings),
                now : Clocks, returned : {FALSE}, out : {<<>>}]

runSlotEffect ==
  /\ ~query.returned
  /\ query' = [query EXCEPT
        !.returned = TRUE,
        !.out = slotEffect(query.provider,
                           [scheduledDate |-> query.date, scheduledTime |-> EmptyTime],
                           query.existingBookings).slots]
  /\ UNCHANGED <<profileVars, store, lastOp, pageVars, bookings>>

NextForm == runSlotEffect

FormSpec == FormInit /\ [][NextForm]_vars

(***************************************************************************)
(* Slot generation for a window and a slot duration                        *)
(***************************************************************************)

\* the start and end times of the day rules slots are generated for
WindowTimes == {T900, T0900, T0930, T1100, T1145, T1700}

\* the positive slot durations
SlotDurations == {30, 45, 60}

\* generateTimeSlots(startTime, endTime, duration), or getAvailableTimeSlots
\* for a Monday of the template with that window, no bookings and that
\* slotDuration
GenInit ==
  /\ InitProgram
  /\ query \in [fn : {"generateTimeSlots", "getAvailableTimeSlots"},
                startTime : WindowTimes, endTime : WindowTimes,
                slotDuration : SlotDurations,
                returned : {FALSE}, out : {<<>>}]

callGenerateTimeSlots ==
  /\ ~query.returned
  /\ query.fn = "generateTimeSlots"
  /\ query' = [query EXCEPT
        !.returned = TRUE,
        !.out = generateTimeSlots(query.startTime, query.endTime,
                                  query.slotDuration)]
  /\ UNCHANGED <<profileVars, store, lastOp, pageVars, bookings>>

callGetAvailableTimeSlotsOfWindow ==
  /\ ~query.returned
  /\ query.fn = "getAvailableTimeSlots"
  /\ query' = [query EXCEPT
        !.returned = TRUE,
        !.out = getAvailableTimeSlots(
                  [id |-> "p1",
                   availability |-> weekTemplate(query.startTime, query.endTime)],
                  Monday, <<>>, query.slotDuration)]
  /\ UNCHANGED <<profileVars, store, lastOp, pageVars, bookings>>

NextGen == callGenerateTimeSlots \/ callGetAvailableTimeSlotsOfWindow

GenSpec == GenInit /\ [][NextGen]_vars

(***************************************************************************)
(* The slots and the status of a day                                       *)
(***************************************************************************)

\* a string "HH:MM" as its characters, ':' ranking after the digits
chars(time) == time.hh \o <<10>> \o time.mm

\* a < b for strings: the default order of Array.prototype.sort
RECURSIVE charsBefore(_, _)
charsBefore(a, b) ==
  IF Len(b) = 0 THEN FALSE
  ELSE IF Len(a) = 0 THEN TRUE
  ELSE IF Head(a) # Head(b) THEN Head(a) < Head(b)
  ELSE charsBefore(Tail(a), Tail(b))

\* the sorted array with one more string
RECURSIVE insertSorted(_, _)
insertSorted(sorted, time) ==
  IF Len(sorted) = 0 THEN <<time>>
  ELSE IF charsBefore(chars(time), chars(Head(sorted)))
       THEN <<time>> \o sorted
       ELSE <<Head(sorted)>> \o insertSorted(Tail(sorted), time)

\* .sort() of an array of time strings
RECURSIVE sortTimes(_)
sortTimes(times) ==
  IF Len(times) = 0 THEN <<>>
  ELSE insertSorted(sortTimes(Tail(times)), Head(times))

\* existingBookings.filter(...).map(booking => booking.scheduledTime)
RECURSIVE bookedTimesOf(_, _)
bookedTimesOf(date, existingBookings) ==
  IF Len(existingBookings) = 0 THEN <<>>
  ELSE LET first == Head(existingBookings)
           rest == bookedTimesOf(date, Tail(existingBookings))
       IN  IF first.scheduledDate = date /\ first.status \in ActiveStatuses
           THEN <<first.scheduledTime>> \o rest
           ELSE rest

getBookedSlotsForDate(date, existingBookings) ==
  sortTimes(bookedTimesOf(date, existingBookings))

getTotalPossibleSlots(dayAvailability, slotDuration) ==
  (toMinutes(dayAvailability.endTime) - toMinutes(dayAvailability.startTime))
     \div slotDuration

dayNames ==
  <<"Sunday", "Monday", "Tuesday", "Wednesday", "Thursday", "Friday", "Saturday">>

\* days[new Date(date).getDay()]: undefined for an Invalid Date
getDayName(date) ==
  IF getDay(date) = NaN THEN "undefined" ELSE dayNames[getDay(date) + 1]

\* Math.round(availableSlots / totalPossibleSlots * 100)
roundedPercentage(availableSlots, totalPossibleSlots) ==
  (200 * availableSlots + totalPossibleSlots) \div (2 * totalPossibleSlots)

\* a status that is fully-booked as soon as the date has a pending or
\* confirmed booking
statusByBookedCount(prov, date, existingBookings) ==
  IF ~dayRule(prov.availability, getDay(date)).available
  THEN [available |-> FALSE, status |-> "closed"]
  ELSE IF Len(getBookedSlotsForDate(date, existingBookings)) > 0
       THEN [available |-> FALSE, status |-> "fully-booked"]
       ELSE [available |-> TRUE, status |-> "available"]

\* a status that is computed from the slot list alone
statusFromSlots(prov, date, existingBookings) ==
  LET availableSlots == getAvailableTimeSlots(prov, date, existingBookings,
                                              DefaultSlotDuration)
  IN  [available |-> Len(availableSlots) > 0,
       status |-> IF Len(availableSlots) = 0 THEN "fully-booked" ELSE "available"]

getAvailabilityStatus(prov, date, existingBookings) ==
  IF prov.availability = NoAvailability \/ date = EmptyDate
  THEN [available |-> FALSE, status |-> "unavailable",
        message |-> "No availability data"]
  ELSE LET dayAvailability == dayRule(prov.availability, getDay(date))
       IN  IF ~dayAvailability.available
           THEN [available |-> FALSE, status |-> "closed",
                 message |-> "Provider is closed on this day",
                 dayName |-> getDayName(date)]
           ELSE LET availableSlots ==
                      getAvailableTimeSlots(prov, date, existingBookings,
                                            DefaultSlotDuration)
                    totalPossibleSlots ==
                      getTotalPossibleSlots(dayAvailability, DefaultSlotDuration)
                    bookedSlots == getBookedSlotsForDate(date, existingBookings)
                IN  IF Len(availableSlots) = 0
                    THEN [available |-> FALSE, status |-> "fully-booked",
                          message |-> "Fully booked for this day",
                          bookedSlots |-> Len(bookedSlots),
                          totalSlots |-> totalPossibleSlots]
                    ELSE [available |-> TRUE,
                          status |->
                            IF Len(availableSlots) * 100 < 25 * totalPossibleSlots
                            THEN "limited"
                            ELSE IF Len(availableSlots) * 100 < 50 * totalPossibleSlots
                                 THEN "moderate" ELSE "available",
                          message |-> "slots available",
                          availableSlots |-> Len(availableSlots),
                          bookedSlots |-> Len(bookedSlots),
                          totalSlots |-> totalPossibleSlots,
                          availabilityPercentage |->
                            roundedPercentage(Len(availableSlots), totalPossibleSlots),
                          workingHours |-> <<dayAvailability.startTime,
                                             dayAvailability.endTime>>]

\* firestore.js: the while loop of its generateTimeSlots helper
RECURSIVE storeGenerateLoop(_, _, _)
storeGenerateLoop(current, end, intervalMinutes) ==
  IF current < end
  THEN <<timeString(current)>>
         \o storeGenerateLoop(current + intervalMinutes, end, intervalMinutes)
  ELSE <<>>

storeGenerateTimeSlots(startTime, endTime, intervalMinutes) ==
  storeGenerateLoop(toMinutes(startTime), toMinutes(endTime), intervalMinutes)

\* slots of the day's window whether or not the day is open
storeSlotsAnyDay(found, date, docs) ==
  LET dayAvailability == dayRule(found.availability, getDay(date))
      bookedTimes == bookedTimesOf(date, queryByProvider(docs, found.id))
  IN  [success |-> TRUE,
       data |-> SelectSeq(storeGenerateTimeSlots(dayAvailability.startTime,
                                                 dayAvailability.endTime,
                                                 DefaultSlotDuration),
                          LAMBDA slot : ~Contains(bookedTimes, slot))]

\* firestore.js: getAvailableTimeSlots(providerId, date), where found is the
\* answer of getProviderProfile and docs is the collection "bookings"
storeGetAvailableTimeSlots(found, date, docs) ==
  IF found = NoProvider
  THEN [success |-> FALSE, data |-> <<>>]
  ELSE LET dayAvailability == dayRule(found.availability, getDay(date))
       IN  IF ~dayAvailability.available
           THEN [success |-> TRUE, data |-> <<>>]
           ELSE LET bookedTimes == bookedTimesOf(date, queryByProvider(docs, found.id))
                    startTime == IF dayAvailability.startTime = EmptyTime
                                 THEN T0900 ELSE dayAvailability.startTime
                    endTime == IF dayAvailability.endTime = EmptyTime
                               THEN T1700 ELSE dayAvailability.endTime
                    slots == storeGenerateTimeSlots(startTime, endTime,
                                                    DefaultSlotDuration)
                IN  [success |-> TRUE,
                     data |-> SelectSeq(slots,
                                        LAMBDA slot : ~Contains(bookedTimes, slot))]

\* a weekly template that is open on the given weekdays
templateOpenOn(openDays, startTime, endTime) ==
  [day \in 0..6 |->
     [available |-> day \in openDays, startTime |-> startTime, endTime |-> endTime]]

DayOpenings == {{}, 1..5, {0, 6}, 0..6}

DayWindows == {<<T0900, T1000>>, <<T0900, T1700>>, <<T0930, T1145>>, <<T1100, T0900>>}

\* bookings of the provider on a Sunday and on a Monday
DayBookings ==
  [customerId : {"c1"}, providerId : {"p1"}, scheduledDate : {Sunday, Monday},
   scheduledTime : {T0900}, status : {"pending", "confirmed", "completed"}]

MaxDayBookings == 1

DayInit ==
  /\ InitProgram
  /\ query \in [fn : {"getAvailableTimeSlots", "storeGetAvailableTimeSlots",
                      "getAvailabilityStatus"},
                openDays : DayOpenings, window : DayWindows,
                date : {Sunday, Monday},
                existingBookings : SeqsUpTo(DayBookings, MaxDayBookings),
                slotDuration : SlotDurations,
                returned : {FALSE}, out : {<<>>}]

\* the provider document of a call
queryProvider ==
  [id |-> "p1",
   availability |-> templateOpenOn(query.openDays, query.window[1], query.window[2])]

callGetAvailableTimeSlotsOfDay ==
  /\ ~query.returned
  /\ query.fn = "getAvailableTimeSlots"
  /\ query' = [query EXCEPT
        !.returned = TRUE,
        !.out = getAvailableTimeSlots(queryProvider, query.date,
                                      query.existingBookings, query.slotDuration)]
  /\ UNCHANGED <<profileVars, store, lastOp, pageVars, bookings>>

callStoreGetAvailableTimeSlots ==
  /\ ~query.returned
  /\ query.fn = "storeGetAvailableTimeSlots"
  /\ query' = [query EXCEPT
        !.returned = TRUE,
        !.out = storeGetAvailableTimeSlots(queryProvider, query.date,
                                           query.existingBookings).data]
  /\ UNCHANGED <<profileVars, store, lastOp, pageVars, bookings>>

callGetAvailabilityStatus ==
  /\ ~query.returned
  /\ query.fn = "getAvailabilityStatus"
  /\ query' = [query EXCEPT
        !.returned = TRUE,
        !.out = getAvailabilityStatus(queryProvider, query.date,
                                      query.existingBookings)]
  /\ UNCHANGED <<profileVars, store, lastOp, pageVars, bookings>>

NextDay ==
  \/ callGetAvailableTimeSlotsOfDay
  \/ callStoreGetAvailableTimeSlots
  \/ callGetAvailabilityStatus

DaySpec == DayInit /\ [][NextDay]_vars

(***************************************************************************)
(* The next available slot                                                 *)
(***************************************************************************)

isLeapYear(y) == (y % 4 = 0 /\ y % 100 # 0) \/ y % 400 = 0

daysInMonth(y, m) ==
  IF m = 2 THEN (IF isLeapYear(y) THEN 29 ELSE 28)
  ELSE IF m \in {4, 6, 9, 11} THEN 30 ELSE 31

\* checkDate.setDate(today.getDate() + i) and toISOString().split('T')[0]:
\* the date string of the day i days after a date
RECURSIVE addDays(_, _)
addDays(date, i) ==
  IF i = 0 THEN date
  ELSE IF date.d < daysInMonth(date.y, date.m)
       THEN addDays([date EXCEPT !.d = date.d + 1], i - 1)
       ELSE IF date.m < 12
            THEN addDays([y |-> date.y, m |-> date.m + 1, d |-> 1], i - 1)
            ELSE addDays([y |-> date.y + 1, m |-> 1, d |-> 1], i - 1)

\* return null
NoSlot == [date |-> EmptyDate, time |-> EmptyTime, dayName |-> "null"]

\* the for loop of getNextAvailableSlot, from day i on
RECURSIVE nextSlotLoop(_, _, _, _, _)
nextSlotLoop(prov, existingBookings, daysToCheck, now, i) ==
  IF i < daysToCheck
  THEN LET dateString == addDays(now.date, i)
           availableSlots == getAvailableTimeSlots(prov, dateString,
                                                   existingBookings,
                                                   DefaultSlotDuration)
       IN  IF Len(availableSlots) > 0
           THEN [date |-> dateString, time |-> availableSlots[1],
                 dayName |-> getDayName(dateString)]
           ELSE nextSlotLoop(prov, existingBookings, daysToCheck, now, i + 1)
  ELSE NoSlot

getNextAvailableSlot(prov, existingBookings, daysToCheck, now) ==
  nextSlotLoop(prov, existingBookings, daysToCheck, now, 0)

MaxNextBookings == 2

\* templates that are closed, open on weekdays, or open on Wednesdays only
NextOpenings == {{}, 1..5, {3}}

NextWindows == {<<T0900, T1000>>, <<T0900, T1100>>}

NextBookings ==
  [customerId : {"c1"}, providerId : {"p1"}, scheduledDate : {Monday, Tuesday},
   scheduledTime : {T0900, T1000}, status : {"pending", "rejected"}]

\* the numbers of days to check
Horizons == {0, 1, 2, 3, 7}

NextSlotInit ==
  /\ InitProgram
  /\ query \in [fn : {"getNextAvailableSlot"},
                openDays : NextOpenings, window : NextWindows,
                existingBookings : SeqsUpTo(NextBookings, MaxNextBookings),
                daysToCheck : Horizons, now : Clocks,
                returned : {FALSE}, out : {NoSlot}]

callGetNextAvailableSlot ==
  /\ ~query.returned
  /\ query' = [query EXCEPT
        !.returned = TRUE,
        !.out = getNextAvailableSlot(queryProvider, query.existingBookings,
                                     query.daysToCheck, query.now)]
  /\ UNCHANGED <<profileVars, store, lastOp, pageVars, bookings>>

NextNextSlot == callGetNextAvailableSlot

NextSlotSpec == NextSlotInit /\ [][NextNextSlot]_vars

(***************************************************************************)
(* Calls without a template or without a valid date                        *)
(***************************************************************************)

\* the outcome of a call: the value returned, or the exception thrown
returns(value) == [threw |-> FALSE, value |-> value]

throws(error) == [threw |-> TRUE, value |-> error]

\* getWeeklyAvailability(provider, weekStartDate, existingBookings): the object
\* with the status of the seven days from weekStartDate on under their day
\* names; toISOString() of an Invalid Date throws a RangeError
getWeeklyAvailability(prov, weekStartDate, existingBookings) ==
  IF weekStartDate = EmptyDate \/ ~validDate(weekStartDate)
  THEN throws("RangeError: Invalid time value")
  ELSE returns([dayName \in {dayNames[n] : n \in 1..7} |->
                  LET i == CHOOSE k \in 0..6 :
                              getDayName(addDays(weekStartDate, k)) = dayName
                  IN  getAvailabilityStatus(prov, addDays(weekStartDate, i),
                                            existingBookings)])

\* "2025-13-01": not a calendar date
InvalidDate == [y |-> 2025, m |-> 13, d |-> 1]

AbsentInit ==
  /\ InitProgram
  /\ query \in [fn : {"isProviderAvailable", "getAvailableTimeSlots",
                      "getAvailabilityStatus", "getWeeklyAvailability",
                      "getNextAvailableSlot"},
                provider : {NoProvider, providerDoc("p1")},
                date : {EmptyDate, InvalidDate, Sunday, Monday},
                time : {EmptyTime, T0900},
                existingBookings : SeqsUpTo(DayBookings, MaxDayBookings),
                now : Clocks,
                returned : {FALSE}, out : {returns(<<>>)}]

callFunction ==
  /\ ~query.returned
  /\ query' = [query EXCEPT
        !.returned = TRUE,
        !.out =
          CASE query.fn = "isProviderAvailable" ->
                 returns(isProviderAvailable(query.provider, query.date,
                                             query.time, query.existingBookings))
            [] query.fn = "getAvailableTimeSlots" ->
                 returns(getAvailableTimeSlots(query.provider, query.date,
                                               query.existingBookings,
                                               DefaultSlotDuration))
            [] query.fn = "getAvailabilityStatus" ->
                 returns(getAvailabilityStatus(query.provider, query.date,
                                               query.existingBookings))
            [] query.fn = "getWeeklyAvailability" ->
                 getWeeklyAvailability(query.provider, query.date,
                                       query.existingBookings)
            [] query.fn = "getNextAvailableSlot" ->
                 returns(getNextAvailableSlot(query.provider,
                                              query.existingBookings, 7,
                                              query.now))]
  /\ UNCHANGED <<profileVars, store, lastOp, pageVars, bookings>>

NextAbsent == callFunction

AbsentSpec == AbsentInit /\ [][NextAbsent]_vars

(***************************************************************************)
(* The loops of slot generation, one iteration at a time                   *)
(***************************************************************************)

MaxIterations == 3

\* slot durations a caller may pass, positive or not
AnyDurations == {0 - 60, 0, 45, 60}

\* A call of generateTimeSlots(startTime, endTime, duration), or of
\* getAvailableTimeSlots for a Monday of the template with that window, no
\* bookings and that slotDuration: pc is "called" before the loop, "loop" while
\* it runs and "returned" after it; no statement of either function rejects
\* its arguments.
LoopInit ==
  /\ InitProgram
  /\ query \in [fn : {"generateTimeSlots", "getAvailableTimeSlots"},
                startTime : WindowTimes, endTime : WindowTimes,
                slotDuration : AnyDurations,
                pc : {"called"}, currentTime : {0}, iterations : {0},
                slots : {<<>>}]

\* the statements before the loop
enterLoop ==
  /\ query.pc = "called"
  /\ query' = [query EXCEPT !.pc = "loop",
                             !.currentTime = toMinutes(query.startTime)]
  /\ UNCHANGED <<profileVars, store, lastOp, pageVars, bookings>>

\* one pass through the body: while (currentTime + slotDuration <= endTime),
\* for (...; time + duration <= end; time += duration). A loop that does not
\* end is followed for MaxIterations passes.
loopBody ==
  /\ query.pc = "loop"
  /\ query.currentTime + query.slotDuration <= toMinutes(query.endTime)
  /\ query.slotDuration > 0 \/ query.iterations < MaxIterations
  /\ LET timeSlot == timeString(query.currentTime)
         pushed ==
           \/ query.fn = "generateTimeSlots"
           \/ isProviderAvailable(
                 [id |-> "p1",
                  availability |-> weekTemplate(query.startTime, query.endTime)],
                 Monday, timeSlot, <<>>)
     IN  query' = [query EXCEPT
           !.slots = IF pushed THEN Append(query.slots, timeSlot) ELSE query.slots,
           !.currentTime = query.currentTime + query.slotDuration,
           !.iterations = query.iterations + 1]
  /\ UNCHANGED <<profileVars, store, lastOp, pageVars, bookings>>

\* the loop condition is false: return slots
exitLoop ==
  /\ query.pc = "loop"
  /\ ~(query.currentTime + query.slotDuration <= toMinutes(query.endTime))
  /\ query' = [query EXCEPT !.pc = "returned"]
  /\ UNCHANGED <<profileVars, store, lastOp, pageVars, bookings>>

NextLoop == enterLoop \/ loopBody \/ exitLoop

LoopSpec == LoopInit /\ [][NextLoop]_vars

(***************************************************************************)
(* The provider's profile page and the availability template it stores     *)
(***************************************************************************)

\* the signed-in provider of the profile page
ProfileUser == "p1"

\* the days whose row of the availability form the provider edits
EditedDays == {1}

\* the values the provider enters into the time inputs
EditTimes == {T0900, T1700}

\* the values of the two radio buttons of a day
RadioValues == {"true", "false"}

SavedMessage == "Profile updated successfully!"

ErrorMessage == "Error saving profile. Please try again."

\* the component is mounted: useState gives the initial state, and the effect
\* calls fetchProfile
mountProfile ==
  /\ ~profilePage.loading
  /\ ~profilePage.saving
  /\ profilePage' = [loading |-> TRUE, availability |-> defaultAvailability,
                     saving |-> FALSE, message |-> "", timer |-> FALSE,
                     profileData |-> NoAvailability]
  /\ UNCHANGED <<store, lastOp, pageVars, bookings, profileDoc, query>>

\* fetchProfile: the stored document's fields replace those of the profile
fetchProfile ==
  /\ profilePage.loading
  /\ profilePage' = [profilePage EXCEPT
                       !.loading = FALSE,
                       !.availability = IF profileDoc.exists
                                        THEN profileDoc.availability
                                        ELSE @]
  /\ UNCHANGED <<store, lastOp, pageVars, bookings, profileDoc, query>>

\* handleAvailabilityChange(day, field, value): the time inputs of a day are
\* rendered while the day is marked available
handleAvailabilityChange ==
  /\ ~profilePage.loading
  /\ \E day \in EditedDays :
       \/ \E value \in RadioValues :
            profilePage' = [profilePage EXCEPT
                              !.availability[day].available = (value = "true")]
       \/ /\ profilePage.availability[day].available
          /\ \E value \in EditTimes :
               \/ profilePage' = [profilePage EXCEPT
                                    !.availability[day].startTime = value]
               \/ profilePage' = [profilePage EXCEPT
                                    !.availability[day].endTime = value]
  /\ UNCHANGED <<store, lastOp, pageVars, bookings, profileDoc, query>>

\* handleSubmit up to its await of getDoc: the submit button is disabled while
\* saving
handleSubmit ==
  /\ ~profilePage.loading
  /\ ~profilePage.saving
  /\ profilePage' = [profilePage EXCEPT
                       !.saving = TRUE,
                       !.message = "",
                       !.profileData = profilePage.availability]
  /\ UNCHANGED <<store, lastOp, pageVars, bookings, profileDoc, query>>

\* handleSubmit from getDoc on: updateDoc of the existing document or setDoc
\* of a new one writes profileData as it is
handleSubmitWrites ==
  /\ profilePage.saving
  /\ profileDoc' = [exists |-> TRUE, availability |-> profilePage.profileData]
  /\ profilePage' = [profilePage EXCEPT
                       !.saving = FALSE,
                       !.message = SavedMessage,
                       !.timer = TRUE,
                       !.profileData = NoAvailability]
  /\ UNCHANGED <<store, lastOp, pageVars, bookings, query>>

\* handleSubmit when getDoc, updateDoc or setDoc throws: catch and finally
handleSubmitFails ==
  /\ profilePage.saving
  /\ profilePage' = [profilePage EXCEPT
                       !.saving = FALSE,
                       !.message = ErrorMessage,
                       !.profileData = NoAvailability]
  /\ UNCHANGED <<store, lastOp, pageVars, bookings, profileDoc, query>>

\* the callback of setTimeout(() => setMessage(''), 3000); the timers of
\* several saves are followed as one
clearMessage ==
  /\ profilePage.timer
  /\ profilePage' = [profilePage EXCEPT !.message = "", !.timer = FALSE]
  /\ UNCHANGED <<store, lastOp, pageVars, bookings, profileDoc, query>>

\* the templates passed to updateProviderAvailability: the default, one that
\* ends before it starts, and one without a rule for Saturday
ApiTemplates ==
  { defaultAvailability,
    weekTemplate(T1700, T0900),
    [day \in 0..5 |-> defaultAvailability[day]] }

\* updateProviderAvailability(providerId, availability): updateDoc throws for
\* a document that does not exist
updateProviderAvailability ==
  \E availability \in ApiTemplates :
    /\ IF profileDoc.exists
       THEN /\ profileDoc' = [profileDoc EXCEPT !.availability = availability]
            /\ lastOp' = [kind |-> "updateProviderAvailability",
                          user |-> ProfileUser, id |-> 0, status |-> "success"]
       ELSE /\ profileDoc' = profileDoc
            /\ lastOp' = [kind |-> "updateProviderAvailability",
                          user |-> ProfileUser, id |-> 0, status |-> "error"]
    /\ UNCHANGED <<store, pageVars, bookings, profilePage, query>>

NextProfile ==
  \/ mountProfile
  \/ fetchProfile
  \/ handleAvailabilityChange
  \/ handleSubmit
  \/ handleSubmitWrites
  \/ handleSubmitFails
  \/ clearMessage
  \/ updateProviderAvailability

ProfileSpec == Init /\ [][NextProfile]_vars

(***************************************************************************)
(* The read-side functions and the arguments they are given                *)
(***************************************************************************)

\* hasAvailabilityOnDate(provider, date, existingBookings) while the clock
\* shows now
hasAvailabilityOnDate(prov, date, existingBookings, now) ==
  LET availableSlots == getAvailableTimeSlots(prov, date, existingBookings,
                                              DefaultSlotDuration)
      filteredSlots == filterPastSlots(date, availableSlots, now)
  IN  Len(filteredSlots) > 0

\* filterProvidersByAvailability(providers, date, time, bookingsMap)
filterProvidersByAvailability(providers, date, time, bookingsMap, now) ==
  IF date = EmptyDate /\ time = EmptyTime THEN providers
  ELSE SelectSeq(providers,
         LAMBDA p :
           LET bookingsOfProvider == IF p.id \in DOMAIN bookingsMap
                                     THEN bookingsMap[p.id] ELSE <<>>
           IN  IF date # EmptyDate /\ time # EmptyTime
               THEN isProviderAvailable(p, date, time, bookingsOfProvider)
               ELSE IF date # EmptyDate
                    THEN hasAvailabilityOnDate(p, date, bookingsOfProvider, now)
                    ELSE TRUE)

\* return null of getNextAvailableDate
NoDate == EmptyDate

\* the for loop of getNextAvailableDate, from day i on; today.setHours(0, 0,
\* 0, 0) keeps the date
RECURSIVE nextDateLoop(_, _, _, _, _)
nextDateLoop(prov, existingBookings, daysToCheck, now, i) ==
  IF i < daysToCheck
  THEN LET dateString == addDays(now.date, i)
       IN  IF hasAvailabilityOnDate(prov, dateString, existingBookings, now)
           THEN dateString
           ELSE nextDateLoop(prov, existingBookings, daysToCheck, now, i + 1)
  ELSE NoDate

getNextAvailableDate(prov, existingBookings, daysToCheck, now) ==
  nextDateLoop(prov, existingBookings, daysToCheck, now, 0)

\* The arrays of a call as objects: arrays[1] is the array the caller passed
\* as existingBookings, the others are the arrays the call creates.

\* a getBookedSlotsForDate that sorts the array it was given
bookedSlotsSortingArgument(date, existingBookings) ==
  LET a1 == <<reverse(existingBookings)>>
      a2 == Append(a1, bookedTimesOf(date, a1[1]))
  IN  [arrays |-> a2, value |-> Len(a2)]

\* getBookedSlotsForDate: filter and map each return a new array, sort sorts
\* the array it is called on, which is the one map returned
bookedSlotsArrays(date, existingBookings) ==
  LET a1 == <<existingBookings>>
      a2 == Append(a1, SelectSeq(a1[1],
                         LAMBDA b : b.scheduledDate = date
                                      /\ b.status \in ActiveStatuses))
      a3 == Append(a2, bookedTimesOf(date, a2[2]))
      a4 == [a3 EXCEPT ![3] = sortTimes(@)]
  IN  [arrays |-> a4, value |-> 3]

\* whether a call of getAvailabilityStatus reaches its call of
\* getBookedSlotsForDate
reachesBookedSlots(prov, date) ==
  /\ prov.availability # NoAvailability
  /\ date # EmptyDate
  /\ dayRule(prov.availability, getDay(date)).available

\* existingBookings after a call: find, filter and property reads leave it
\* as it is; getAvailabilityStatus calls getBookedSlotsForDate on an open
\* day, and getWeeklyAvailability calls it for each open day of the week
existingBookingsAfter(fn, prov, date, existingBookings) ==
  IF \/ fn = "getBookedSlotsForDate"
     \/ fn = "getAvailabilityStatus" /\ reachesBookedSlots(prov, date)
     \/ fn = "getWeeklyAvailability"
          /\ \E i \in 0..6 : reachesBookedSlots(prov, addDays(date, i))
  THEN bookedSlotsArrays(date, existingBookings).arrays[1]
  ELSE existingBookings

ReadFunctions ==
  {"isProviderAvailable", "getAvailableTimeSlots", "getAvailabilityStatus",
   "getBookedSlotsForDate", "getNextAvailableSlot", "getWeeklyAvailability",
   "hasAvailabilityOnDate", "filterProvidersByAvailability",
   "getNextAvailableDate"}

MaxReadBookings == 2

ReadBookings ==
  [customerId : {"c1"}, providerId : {"p1"}, scheduledDate : {Monday},
   scheduledTime : {T0900, T1000}, status : {"pending", "rejected"}]

ReadInit ==
  /\ InitProgram
  /\ query \in [fn : ReadFunctions,
                openDays : {{}, 1..5},
                window : {<<T0900, T1100>>, <<T0930, T1145>>},
                date : {Sunday, Monday},
                time : {EmptyTime, T0900, T0930},
                existingBookings : SeqsUpTo(ReadBookings, MaxReadBookings),
                daysToCheck : {1, 2},
                now : Clocks,
                returned : {FALSE}, out : {<<>>}]

\* the value a read-side function returns
readValue(fn, prov, date, time, existingBookings, daysToCheck, now) ==
  CASE fn = "isProviderAvailable" ->
         isProviderAvailable(prov, date, time, existingBookings)
    [] fn = "getAvailableTimeSlots" ->
         getAvailableTimeSlots(prov, date, existingBookings, DefaultSlotDuration)
    [] fn = "getAvailabilityStatus" ->
         getAvailabilityStatus(prov, date, existingBookings)
    [] fn = "getBookedSlotsForDate" ->
         LET call == bookedSlotsArrays(date, existingBookings)
         IN  call.arrays[call.value]
    [] fn = "getNextAvailableSlot" ->
         getNextAvailableSlot(prov, existingBookings, daysToCheck, now)
    [] fn = "getWeeklyAvailability" ->
         getWeeklyAvailability(prov, date, existingBookings).value
    [] fn = "hasAvailabilityOnDate" ->
         hasAvailabilityOnDate(prov, date, existingBookings, now)
    [] fn = "filterProvidersByAvailability" ->
         filterProvidersByAvailability(<<prov>>, date, time,
                                       [id \in {prov.id} |-> existingBookings],
                                       now)
    [] fn = "getNextAvailableDate" ->
         getNextAvailableDate(prov, existingBookings, daysToCheck, now)

callReadFunction ==
  /\ ~query.returned
  /\ query' = [query EXCEPT
        !.returned = TRUE,
        !.existingBookings =
           existingBookingsAfter(query.fn, queryProvider, query.date,
                                 query.existingBookings),
        !.out = readValue(query.fn, queryProvider, query.date, query.time,
                          query.existingBookings, query.daysToCheck, query.now)]
  /\ UNCHANGED <<profileVars, store, lastOp, pageVars, bookings>>

NextRead == callReadFunction

ReadSpec == ReadInit /\ [][NextRead]_vars

(***************************************************************************)
(* The conflict filter and the past-slot filter applied to a slot list      *)
(***************************************************************************)

\* both filters on a list of slot strings: the conflict check of
\* isProviderAvailable for each slot, then filterPastSlots
filterSlots(prov, date, timeSlots, existingBookings, now) ==
  filterPastSlots(date,
                  SelectSeq(timeSlots,
                            LAMBDA time : isProviderAvailable(prov, date, time,
                                                              existingBookings)),
                  now)

FilterInit ==
  /\ InitProgram
  /\ query \in [fn : {"filterSlots"},
                openDays : {{}, 1..5},
                window : {<<T0900, T1100>>, <<T0900, T1700>>},
                date : {Sunday, Monday},
                existingBookings : SeqsUpTo(ReadBookings, MaxReadBookings),
                now : Clocks,
                passes : {0}, first : {<<>>}, second : {<<>>}]

\* the filters applied to the candidate slots of the day's window
applyFilters ==
  /\ query.passes = 0
  /\ query' = [query EXCEPT
        !.passes = 1,
        !.first = filterSlots(queryProvider, query.date,
                              generateTimeSlots(query.window[1], query.window[2],
                                                DefaultSlotDuration),
                              query.existingBookings, query.now)]
  /\ UNCHANGED <<profileVars, store, lastOp, pageVars, bookings>>

\* the filters applied to the list they returned
applyFiltersAgain ==
  /\ query.passes = 1
  /\ query' = [query EXCEPT
        !.passes = 2,
        !.second = filterSlots(queryProvider, query.date, query.first,
                               query.existingBookings, query.now)]
  /\ UNCHANGED <<profileVars, store, lastOp, pageVars, bookings>>

NextFilter == applyFilters \/ applyFiltersAgain

FilterSpec == FilterInit /\ [][NextFilter]_vars

(***************************************************************************)
(* The status of a day with many bookings                                  *)
(***************************************************************************)

\* the hours of Monday at which the provider has a pending booking
BookedHours == 9..16

\* one pending booking of Monday at each of the hours, earliest first
RECURSIVE bookingsAtHours(_)
bookingsAtHours(hours) ==
  IF hours = {} THEN <<>>
  ELSE LET h == CHOOSE x \in hours : \A y \in hours : x <= y
       IN  <<[customerId |-> "c1", providerId |-> "p1", scheduledDate |-> Monday,
              scheduledTime |-> timeString(h * 60), status |-> "pending"]>>
             \o bookingsAtHours(hours \ {h})

DayStatusInit ==
  /\ InitProgram
  /\ query \in [fn : {"getAvailabilityStatus"},
                openDays : {{}, 1..5},
                window : {<<T0900, T1700>>, <<T0930, T1145>>, <<T1100, T0900>>},
                date : {Sunday, Monday},
                existingBookings : {bookingsAtHours(H) : H \in SUBSET BookedHours},
                returned : {FALSE}, out : {<<>>}]

NextDayStatus == callGetAvailabilityStatus

DayStatusSpec == DayStatusInit /\ [][NextDayStatus]_vars

(***************************************************************************)
(* The booking form with its date changed and cleared                      *)
(***************************************************************************)

\* onChange of the date input with the date cleared, followed by the slot
\* effect
clearDate(s) == changeDate(s, EmptyDate)

\* the dates entered into the date input: a Monday and a Sunday, on which
\* the providers are closed
PickedDates == {Monday, Sunday}

NextPicker ==
  \/ NextPage
  \/ \E s \in Sessions, date \in PickedDates : changeDate(s, date)
  \/ \E s \in Sessions : clearDate(s)

PickerSpec == Init /\ [][NextPicker]_vars

(***************************************************************************)
(* The booking form submitted by a user who is no customer                 *)
(***************************************************************************)

\* the users AuthContext gives a page whose visitor is signed out or has
\* signed in as a provider
OtherVisitors == {NoUser} \cup Providers

\* a handleBookingSubmit that writes the booking whoever the user is
handleBookingSubmitUnchecked(s, u) ==
  /\ pc[s] = "idle"
  /\ ~bookingLoading[s]
  /\ bookingData[s].scheduledDate # EmptyDate
  /\ bookingData[s].scheduledTime # EmptyTime
  /\ Len(store) < MaxBookings
  /\ store' = addDoc(store, newBooking(u, provider[s], bookingData[s]))
  /\ result' = [result EXCEPT ![s] = "created"]
  /\ UNCHANGED <<profileVars, lastOp, pc, provider, providerBookings,
                 availableTimeSlots, bookingData, bookingLoading, booking,
                 slotWasFree, bookings, query>>

\* handleBookingSubmit for a user u who is signed out (router.push('/login'))
\* or whose role is not customer (the alert): the early returns
handleBookingSubmitRefused(s, u) ==
  /\ pc[s] = "idle"
  /\ ~bookingLoading[s]
  /\ bookingData[s].scheduledDate # EmptyDate
  /\ bookingData[s].scheduledTime # EmptyTime
  /\ u = NoUser \/ userRole(u) # "customer"
  /\ result' = [result EXCEPT ![s] = IF u = NoUser THEN "login" ELSE "refused"]
  /\ UNCHANGED <<profileVars, store, lastOp, pc, provider, providerBookings,
                 availableTimeSlots, bookingData, bookingLoading, booking,
                 slotWasFree, bookings, query>>

NextVisitor ==
  \/ NextPage
  \/ \E s \in Sessions, u \in OtherVisitors : handleBookingSubmitRefused(s, u)

VisitorSpec == Init /\ [][NextVisitor]_vars

(***************************************************************************)
(* Properties of booking creation                                          *)
(***************************************************************************)

\* the documents of docs that are pending or confirmed and have the key of data
activeAt(docs, data) ==
  {i \in 1..Len(docs) : sameKey(docs[i], data) /\ docs[i].status \in ActiveStatuses}

\* C1: no two distinct bookings of the store have the same provider, date and
\* time while both are pending or confirmed.
NoDoubleBooking ==
  \A i, j \in 1..Len(store) :
     (i # j /\ sameKey(store[i], store[j]))
        => ~(store[i].status \in ActiveStatuses /\ store[j].status \in ActiveStatuses)

\* two pages whose requests for one key were both issued while the store held
\* no pending or confirmed booking for it, and which the store has both answered
racedRequests(s, t) ==
  /\ s # t
  /\ pc[s] = "idle" /\ pc[t] = "idle"
  /\ result[s] \in {"created", "slot_taken"}
  /\ result[t] \in {"created", "slot_taken"}
  /\ sameKey(booking[s], booking[t])
  /\ slotWasFree[s] /\ slotWasFree[t]

\* C2: of two concurrent requests for the same key, none booked beforehand,
\* exactly one ends with a created pending booking and the other one is refused
\* as slot-taken; the store then holds one pending booking for the key.
OneWinnerOfTwo ==
  \A s, t \in Sessions :
     racedRequests(s, t)
        => /\ {result[s], result[t]} = {"created", "slot_taken"}
           /\ Cardinality(activeAt(store, booking[s])) = 1

\* the store answers the write of page s
answered(s) == pc[s] = "writing" /\ pc'[s] = "idle" /\ result'[s] # "error"

\* C3: a request for a key that has a pending or confirmed booking in the store
\* is refused as slot-taken and leaves the store as it was, whatever the page
\* showed and whoever asks.
TakenKeyRefused ==
  [][\A s \in Sessions :
        (answered(s) /\ keyTaken(store, booking[s]))
           => (result'[s] = "slot_taken" /\ store' = store)]_vars

\* C4: every booking written by a page is, at the write, among the available
\* slots of its provider and date computed from the bookings the store holds
\* then, not from the bookings the page fetched when it was opened.
WrittenSlotAvailableNow ==
  [][\A s \in Sessions :
        (answered(s) /\ result'[s] = "created")
           => Contains(getAvailableTimeSlots(providerDoc(booking[s].providerId),
                                             booking[s].scheduledDate,
                                             queryByProvider(store, booking[s].providerId),
                                             DefaultSlotDuration),
                       booking[s].scheduledTime)]_vars

\* C7: a write that adds a booking adds exactly one, with status pending
\* whatever status the caller's data carried, and leaves the bookings already
\* stored as they were.
CreatedAsPending ==
  [][Len(store') > Len(store)
        => /\ Len(store') = Len(store) + 1
           /\ store'[Len(store')].status = "pending"
           /\ \A i \in 1..Len(store) : store'[i] = store[i]]_vars

\* createBooking was last called with data of status completed and the booking
\* it stored is pending, and a page has had its own booking created
CreatedFromOtherStatus ==
  /\ lastOp.kind = "create" /\ lastOp.status = "completed"
  /\ lastOp.id = Len(store)
  /\ store[lastOp.id].status = "pending"
  /\ \E s \in Sessions : result[s] = "created" /\ store[1] = booking[s]

\* the minutes of the day at which a slot of the given duration starts inside
\* the window of a day of the template and ends no later than the window
slotStarts(day, duration) ==
  LET startTime == toMinutes(day.startTime)
      endTime == toMinutes(day.endTime)
  IN  {startTime + k * duration : k \in 0..(((endTime - startTime) \div duration) - 1)}

\* the slots of the page's date that its fetched bookings leave free are offered
freeSlotsOffered(s) ==
  (pc[s] # "loading" /\ bookingData[s].scheduledDate # EmptyDate
     /\ provider[s].availability # NoAvailability)
  => LET date == bookingData[s].scheduledDate
         day == provider[s].availability[getDay(date)]
     IN  \A m \in slotStarts(day, DefaultSlotDuration) :
            ( /\ day.available
              /\ ~\E i \in 1..Len(providerBookings[s]) :
                     /\ providerBookings[s][i].scheduledDate = date
                     /\ providerBookings[s][i].scheduledTime = timeString(m)
                     /\ providerBookings[s][i].status \in ActiveStatuses )
            => Contains(availableTimeSlots[s], timeString(m))

\* C8: requests for different keys do not affect each other: a slot is offered
\* whenever no pending or confirmed booking of the page's list has its key, and
\* a request the store answers for a key that is free in the store creates its
\* booking, whatever is booked or requested for other keys.
DifferentKeysIndependent ==
  /\ [](\A s \in Sessions : freeSlotsOffered(s))
  /\ [][\A s \in Sessions :
          (answered(s) /\ ~keyTaken(store, booking[s]))
             => (result'[s] = "created" /\ store' = Append(store, booking[s]))]_vars

\* a page that was opened when another slot of the same provider and date was
\* booked has had its own slot booked
CreatedBesideOtherKey ==
  \E s \in Sessions :
     /\ result[s] = "created"
     /\ Len(store) = 2 /\ store[2] = booking[s]
     /\ store[1].providerId = booking[s].providerId
     /\ store[1].scheduledDate = booking[s].scheduledDate
     /\ store[1].scheduledTime # booking[s].scheduledTime
     /\ store[1].status \in ActiveStatuses
     /\ Len(providerBookings[s]) = 1

LegalTransitions ==
  {<<"pending", "confirmed">>, <<"pending", "rejected">>,
   <<"confirmed", "completed">>}

\* C5: the status of a booking changes only from pending to confirmed or
\* rejected and from confirmed to completed; rejected and completed never
\* change.
OnlyLegalTransitions ==
  [][\A id \in 1..Len(store) :
        store'[id].status # store[id].status
           => <<store[id].status, store'[id].status>> \in LegalTransitions]_vars

\* C6: every status change is issued by the provider of the booking.
StatusChangedByProvider ==
  lastOp.kind = "update" => lastOp.user = store[lastOp.id].providerId

(***************************************************************************)
(* Properties of the availability functions                                *)
(***************************************************************************)

\* C10: getAvailableTimeSlots returns a slot of the day's window exactly when
\* no booking of the same date and time is pending or confirmed; rejected and
\* completed bookings and bookings of other dates or times do not matter.
SlotsAreUnbookedCandidates ==
  query.returned =>
    LET open == /\ query.provider.availability # NoAvailability
                /\ query.provider.availability[getDay(query.date)].available
        day == query.provider.availability[getDay(query.date)]
        candidates ==
          IF open
          THEN slotStarts(day, DefaultSlotDuration)
          ELSE {}
        booked(time) ==
          \E i \in 1..Len(query.existingBookings) :
             /\ query.existingBookings[i].scheduledDate = query.date
             /\ query.existingBookings[i].scheduledTime = time
             /\ query.existingBookings[i].status \in ActiveStatuses
    IN  /\ \A m \in candidates :
              Contains(query.slots, timeString(m)) <=> ~booked(timeString(m))
        /\ \A i \in 1..Len(query.slots) :
              \E m \in candidates : query.slots[i] = timeString(m)

\* a call with a pending booking on one slot of the date and a rejected booking
\* on another has returned without the first slot and with the second
BookedExcludedRejectedIncluded ==
  /\ query.returned
  /\ query.date = Monday
  /\ Len(query.existingBookings) = 2
  /\ query.existingBookings[1] =
        [customerId |-> "c1", providerId |-> "p1", scheduledDate |-> Monday,
         scheduledTime |-> T0900, status |-> "pending"]
  /\ query.existingBookings[2] =
        [customerId |-> "c1", providerId |-> "p1", scheduledDate |-> Monday,
         scheduledTime |-> T1000, status |-> "rejected"]
  /\ ~Contains(query.slots, T0900)
  /\ Contains(query.slots, T1000)

\* C11: for today's date filterPastSlots removes every slot that starts at or
\* before the current instant and keeps every later slot, in order; for any
\* other date it returns the list unchanged.
PastSlotsRemoved ==
  query.returned =>
    IF query.date = query.now.date
    THEN query.out =
           SelectSeq(query.timeSlots,
                     LAMBDA time : toMinutes(time) > query.now.minute)
    ELSE query.out = query.timeSlots

\* C12: every slot the booking form lists for a date has no pending or
\* confirmed booking among the fetched bookings and, when the date is today,
\* starts after the current instant.
FormSlotsFiltered ==
  query.returned =>
    \A i \in 1..Len(query.out) :
       /\ ~\E j \in 1..Len(query.existingBookings) :
              /\ query.existingBookings[j].scheduledDate = query.date
              /\ query.existingBookings[j].scheduledTime = query.out[i]
              /\ query.existingBookings[j].status \in ActiveStatuses
       /\ query.date = query.now.date
             => instantBefore(query.now, slotDateTime(query.date, query.out[i]))

\* C13: for an open day rule with start S, end E and duration D > 0 the slots
\* generated are exactly the times S + k*D with S + k*D + D <= E, in ascending
\* order and without duplicates, none extending past E, also when E - S is
\* not a multiple of D.
GeneratedSlotsExact ==
  query.returned =>
    LET S == toMinutes(query.startTime)
        E == toMinutes(query.endTime)
        D == query.slotDuration
        n == IF E - S >= D THEN (E - S) \div D ELSE 0
    IN  /\ Len(query.out) = n
        /\ \A k \in 1..n : query.out[k] = timeString(S + (k - 1) * D)
        /\ \A k \in 1..Len(query.out) : toMinutes(query.out[k]) + D <= E
        /\ \A j, k \in 1..Len(query.out) :
              j < k => toMinutes(query.out[j]) < toMinutes(query.out[k])

\* getAvailableTimeSlots has returned the two slots 09:30 and 10:30 of the
\* window 09:30-11:45, whose length is not a multiple of the duration
GeneratedInsideWindow ==
  /\ query.returned
  /\ query.fn = "getAvailableTimeSlots"
  /\ query.slotDuration = DefaultSlotDuration
  /\ query.startTime = T0930 /\ query.endTime = T1145
  /\ query.out = <<T0930, T1030>>

(***************************************************************************)
(* Properties of the slots and the status of a day                         *)
(***************************************************************************)

\* the weekday rule of the date of the call is open
queryDayOpen == getDay(query.date) \in query.openDays

\* C14: for a date whose weekday rule is not open the slot list is empty,
\* whatever the window, the slot duration and the bookings.
ClosedDayNoSlots ==
  (query.returned /\ query.fn # "getAvailabilityStatus" /\ ~queryDayOpen)
     => query.out = <<>>

\* the slots of a Sunday with a booking were asked of a template that is
\* closed on Sundays with the window 09:00-17:00
ClosedSundayAsked ==
  /\ query.returned
  /\ query.fn = "storeGetAvailableTimeSlots"
  /\ query.openDays = 1..5 /\ query.date = Sunday
  /\ query.window = <<T0900, T1700>>
  /\ Len(query.existingBookings) = 1
  /\ query.existingBookings[1].scheduledDate = Sunday
  /\ query.out = <<>>

\* C15: getAvailabilityStatus returns status closed with available = false for
\* every date whose weekday rule is not open, whatever the bookings.
ClosedDayStatus ==
  (query.returned /\ query.fn = "getAvailabilityStatus" /\ ~queryDayOpen)
     => (query.out.status = "closed" /\ ~query.out.available)

\* the status of a closed Sunday that has a pending booking was asked
ClosedSundayStatusAsked ==
  /\ query.returned
  /\ query.fn = "getAvailabilityStatus"
  /\ query.openDays = 1..5 /\ query.date = Sunday
  /\ Len(query.existingBookings) = 1
  /\ query.existingBookings[1].scheduledDate = Sunday
  /\ query.existingBookings[1].status = "pending"
  /\ query.out.status = "closed"

openSlotsAhead(i) ==
  LET date == addDays(query.now.date, i)
      day == dayRule(queryProvider.availability, getDay(date))
  IN  IF ~day.available THEN {}
      ELSE {m \in slotStarts(day, DefaultSlotDuration) :
              /\ ~\E j \in 1..Len(query.existingBookings) :
                     /\ query.existingBookings[j].scheduledDate = date
                     /\ query.existingBookings[j].scheduledTime = timeString(m)
                     /\ query.existingBookings[j].status \in ActiveStatuses
              /\ i = 0 => m > query.now.minute}

\* C17: getNextAvailableSlot returns the earliest date among today ..
\* today + daysToCheck - 1 that has a slot without pending or confirmed
\* booking which, for today, has not started yet, together with the earliest
\* such slot; it returns null exactly when the horizon has no such date.
NextSlotIsEarliestOpen ==
  query.returned =>
    LET ahead == {i \in 0..(query.daysToCheck - 1) : openSlotsAhead(i) # {}}
    IN  IF ahead = {} THEN query.out = NoSlot
        ELSE LET first == CHOOSE i \in ahead : \A k \in ahead : i <= k
                 slot == CHOOSE m \in openSlotsAhead(first) :
                            \A k \in openSlotsAhead(first) : m <= k
             IN  /\ query.out.date = addDays(query.now.date, first)
                 /\ query.out.time = timeString(slot)

(***************************************************************************)
(* Properties of calls without a template or without a valid date          *)
(***************************************************************************)

\* C18: for a provider without availability template, a missing date or a
\* date string that is no calendar date, no function raises an exception;
\* isProviderAvailable returns false, getAvailableTimeSlots returns an empty
\* list and getAvailabilityStatus returns available = false.
AbsenceIsNoError ==
  ( /\ query.returned
    /\ \/ query.provider.availability = NoAvailability
       \/ query.fn # "getNextAvailableSlot"
            /\ (query.date = EmptyDate \/ ~validDate(query.date)) )
  => /\ ~query.out.threw
     /\ query.fn = "isProviderAvailable" => query.out.value = FALSE
     /\ query.fn = "getAvailableTimeSlots" => query.out.value = <<>>
     /\ query.fn = "getAvailabilityStatus" => ~query.out.value.available

(***************************************************************************)
(* Properties of the loops of slot generation                              *)
(***************************************************************************)

\* C19: slot generation is finite: with a slot duration D > 0 the loop makes
\* at most (E - S) / D passes, and a call with D <= 0 is rejected: it makes no
\* pass through the loop and does not return a slot list.
GenerationFinite ==
  LET S == toMinutes(query.startTime)
      E == toMinutes(query.endTime)
      D == query.slotDuration
  IN  /\ D > 0 => query.iterations * D <= (IF E > S THEN E - S ELSE 0)
      /\ D <= 0 => (query.iterations = 0 /\ query.pc # "returned")

(***************************************************************************)
(* Properties of the stored availability template                          *)
(***************************************************************************)

\* validate(template): all seven weekdays are present and every day marked
\* available starts before it ends
validTemplate(template) ==
  /\ DOMAIN template = 0..6
  /\ \A day \in 0..6 :
       template[day].available =>
         toMinutes(template[day].startTime) < toMinutes(template[day].endTime)

\* C20: after any sequence of availability edits and saves, by the profile
\* form or by updateProviderAvailability, the stored template has all seven
\* weekday keys and startTime < endTime on every day marked available.
StoredTemplateValid ==
  profileDoc.exists => validTemplate(profileDoc.availability)

(***************************************************************************)
(* Properties of the read-side functions                                   *)
(***************************************************************************)

\* C21: no call of a read-side function adds, removes, reorders or alters a
\* booking of the list it receives, nor alters the provider's schedule
\* template.
ReadsLeaveArguments ==
  [][ /\ query'.existingBookings = query.existingBookings
      /\ query'.openDays = query.openDays
      /\ query'.window = query.window ]_vars

\* getBookedSlotsForDate has returned the sorted times of two bookings that
\* it was given in the other order
UnsortedBookingsRead ==
  /\ query.returned
  /\ query.fn = "getBookedSlotsForDate"
  /\ query.date = Monday
  /\ Len(query.existingBookings) = 2
  /\ query.existingBookings[1].scheduledTime = T1000
  /\ query.existingBookings[1].status = "pending"
  /\ query.existingBookings[2].scheduledTime = T0900
  /\ query.existingBookings[2].status = "pending"
  /\ query.out = <<T0900, T1000>>

\* C22: filtering is idempotent: the conflict filter and the past-slot
\* filter applied again to an already filtered slot list, with the same
\* bookings, date and clock value, return the identical list in the same
\* order.
FilteringIdempotent ==
  query.passes = 2 => query.second = query.first

\* a list filtered twice on Monday just after 09:00, from which the first
\* pass removed the past 09:00 and the booked 10:00
FilteredTwiceOnMonday ==
  /\ query.passes = 2
  /\ query.date = Monday
  /\ query.now.minute = 540 /\ query.now.ms = 1
  /\ Len(query.first) = 6
  /\ query.first[1] = T1100

(***************************************************************************)
(* Properties of the status of a day                                       *)
(***************************************************************************)

\* the status tag when a of the t slots of the day are available
statusTag(a, t) ==
  IF a * 100 < 25 * t THEN "limited"
  ELSE IF a * 100 < 50 * t THEN "moderate" ELSE "available"

\* C23: for an open day with at least one available slot, the status is
\* limited when availableSlots / totalSlots * 100 < 25, moderate when it is
\* at least 25 and below 50, and available otherwise; the boolean available
\* is true in these three cases and false for closed and fully-booked.
StatusThresholds ==
  LET a == Len(getAvailableTimeSlots(queryProvider, query.date,
                                     query.existingBookings, DefaultSlotDuration))
      t == Cardinality(slotStarts(dayRule(queryProvider.availability,
                                          getDay(query.date)),
                                  DefaultSlotDuration))
  IN  query.returned =>
        /\ queryDayOpen /\ a > 0 =>
             /\ query.out.available
             /\ query.out.status = statusTag(a, t)
        /\ query.out.status \in {"closed", "fully-booked"} => ~query.out.available
        /\ query.out.available =>
             query.out.status \in {"limited", "moderate", "available"}

\* two of the eight slots of Monday are free: exactly 25 percent
QuarterOfMondayFree ==
  /\ query.returned
  /\ query.date = Monday
  /\ query.out.status = "moderate"
  /\ query.out.availableSlots = 2
  /\ query.out.totalSlots = 8

\* C24: for an open day, totalSlots equals the number of candidate slots the
\* slot generator emits for the same day rule and slot duration, for every
\* pair of start and end times, whatever is booked.
TotalSlotsIsGeneratedCount ==
  (query.returned /\ queryDayOpen) =>
     query.out.totalSlots =
       Len(generateTimeSlots(query.window[1], query.window[2],
                             DefaultSlotDuration))

\* C27: for an open date the counts of getAvailabilityStatus satisfy
\* availableSlots + bookedSlots = totalSlots, with availableSlots taken as 0
\* in the fully-booked result.
SlotCountsConsistent ==
  (query.returned /\ queryDayOpen) =>
     (IF query.out.status = "fully-booked" THEN 0 ELSE query.out.availableSlots)
       + query.out.bookedSlots = query.out.totalSlots

(***************************************************************************)
(* Properties relating the functions to each other                         *)
(***************************************************************************)

\* C25: for every provider schedule, date and booking set, the store-backed
\* getAvailableTimeSlots of firestore.js returns the same ordered slot list
\* as getAvailableTimeSlots of availability.js with slot duration 60.
StoreAgreesWithLibrary ==
  (query.returned /\ query.fn = "storeGetAvailableTimeSlots") =>
     query.out = getAvailableTimeSlots(queryProvider, query.date,
                                       query.existingBookings,
                                       DefaultSlotDuration)

\* C26: isProviderAvailable(provider, date, t, bookings) is true exactly when
\* t is an element of getAvailableTimeSlots(provider, date, bookings).
PointCheckIsSlotMember ==
  (query.returned /\ query.fn = "isProviderAvailable" /\ query.time # EmptyTime) =>
     (query.out <=>
        Contains(getAvailableTimeSlots(queryProvider, query.date,
                                       query.existingBookings,
                                       DefaultSlotDuration),
                 query.time))

\* C28: getNextAvailableSlot(provider, bookings, n) is null exactly when
\* getNextAvailableDate(provider, bookings, n) is null, and otherwise its date
\* is the date getNextAvailableDate returns.
NextLookupsAgree ==
  (query.returned /\ query.fn = "getNextAvailableSlot") =>
     LET nextDate == getNextAvailableDate(queryProvider, query.existingBookings,
                                          query.daysToCheck, query.now)
     IN  /\ query.out = NoSlot <=> nextDate = NoDate
         /\ query.out # NoSlot => query.out.date = nextDate

(***************************************************************************)
(* Properties of the booking form                                          *)
(***************************************************************************)

\* C29 as stated: once the slot effect has run, a non-empty selected time is
\* always a member of availableTimeSlots.
SelectedTimeAlwaysListed ==
  \A s \in Sessions :
    bookingData[s].scheduledTime # EmptyTime =>
      Contains(availableTimeSlots[s], bookingData[s].scheduledTime)

\* C29: while a date is selected, a non-empty selected time is a member of
\* availableTimeSlots for that date, and the booking handleBookingSubmit
\* builds carries a time the form lists at that moment.
SelectedTimeListedForDate ==
  /\ [](\A s \in Sessions :
          (bookingData[s].scheduledDate # EmptyDate
             /\ bookingData[s].scheduledTime # EmptyTime) =>
            Contains(availableTimeSlots[s], bookingData[s].scheduledTime))
  /\ [][\A s \in Sessions :
          (pc[s] = "idle" /\ pc'[s] = "writing") =>
            Contains(availableTimeSlots[s], booking'[s].scheduledTime)]_vars

\* a customer has the Monday selected and one of its listed slots clicked,
\* while the other customer's booking of a slot is being written
SlotSelectedOnMonday ==
  /\ bookingData["s1"].scheduledDate = Monday
  /\ bookingData["s1"].scheduledTime # EmptyTime
  /\ pc["s2"] = "writing"

\* C30: handleBookingSubmit writes a booking only when a user is signed in
\* with the role customer, and the booking's customerId is that user's uid;
\* for a signed-out user or a user with the provider role nothing is written
\* and the bookings are unchanged.
OnlyCustomersCreate ==
  /\ [](\A i \in 1..Len(store) : userRole(store[i].customerId) = "customer")
  /\ [][\A s \in Sessions :
          (pc[s] = "writing" /\ pc'[s] = "idle" /\ store' # store) =>
             /\ store' = Append(store, booking[s])
             /\ booking[s].customerId = pageUser(s)
             /\ userRole(pageUser(s)) = "customer"]_vars
  /\ [][\A s \in Sessions :
          (result'[s] \in {"login", "refused"} /\ result'[s] # result[s]) =>
             /\ store' = store
             /\ pc' = pc
             /\ booking' = booking]_vars

\* a provider and a signed-out visitor have each submitted the form of a page,
\* and a customer's booking is in the store
VisitorsRefused ==
  /\ result["s1"] = "refused"
  /\ result["s2"] = "login"
  /\ Len(store) = 1

====
